---- MODULE Spec2Model ----
(***************************************************************************)
(* Housing price prediction service (src/main.py): the start-up loading of *)
(* the four artifacts, the request handlers and prepare_features; and the   *)
(* client (src/interface.py): one run of main after another.                *)
(*                                                                         *)
(* Numbers are fixed-point: a JSON/Python number x is held as the integer  *)
(* 10*x (tenths), a prediction as an integer number of thousandths and a   *)
(* rounded price as an integer number of hundredths.                       *)
(***************************************************************************)
EXTENDS Integers, Sequences, FiniteSets, TLC

VARIABLES entry, pc, server, model, scaler, encoders, feature_names, last,
          client

vars == <<entry, pc, server, model, scaler, encoders, feature_names, last,
          client>>

\* How many fields of a request differ from the base record it is built on.
MaxOverrides == 1

\* Python's None / an object, as a sequence of length 0 / 1.
None == <<>>
Some(x) == <<x>>
IsNone(x) == x = <<>>
Get(x) == x[1]

----------------------------------------------------------------------------
\* Values carried by a request (JSON values or form strings).

Num(n) == [t |-> "num", n |-> n, s |-> ""]           \* n in tenths
Whole(k) == Num(k * 10)
Str(s) == [t |-> "str", n |-> 0, s |-> s]
Null == [t |-> "null", n |-> 0, s |-> ""]
List == [t |-> "list", n |-> 0, s |-> ""]
Inf == [t |-> "inf", n |-> 0, s |-> ""]              \* float('inf')
Absent == [t |-> "absent", n |-> 0, s |-> ""]        \* key not in the dict

Ok(v) == [ok |-> TRUE, exc |-> "", val |-> v]
Raise(e) == [ok |-> FALSE, exc |-> e, val |-> Null]

\* float(s) for the string literals the requests use.
FloatOfStr(s) ==
    CASE s = "1000" -> Ok(Whole(1000))
      [] s = "3" -> Ok(Whole(3))
      [] s = "2" -> Ok(Whole(2))
      [] s = "1" -> Ok(Whole(1))
      [] s = "2.5" -> Ok(Num(25))
      [] s = "0.1" -> Ok(Num(1))
      [] s = "inf" -> Ok(Inf)
      [] OTHER -> Raise("ValueError")

\* int(s) for the same literals: only an integer literal parses.
IntOfStr(s) ==
    CASE s = "1000" -> Ok(Whole(1000))
      [] s = "3" -> Ok(Whole(3))
      [] s = "2" -> Ok(Whole(2))
      [] s = "1" -> Ok(Whole(1))
      [] OTHER -> Raise("ValueError")

\* float(v)
FloatOf(v) ==
    CASE v.t = "num" -> Ok(v)
      [] v.t = "str" -> FloatOfStr(v.s)
      [] OTHER -> Raise("TypeError")

\* Truncation toward zero of n tenths, in tenths.
Trunc(n) == IF n >= 0 THEN (n \div 10) * 10 ELSE 0 - (((0 - n) \div 10) * 10)

\* int(v)
IntOf(v) ==
    CASE v.t = "num" -> Ok(Num(Trunc(v.n)))
      [] v.t = "str" -> IntOfStr(v.s)
      [] OTHER -> Raise("TypeError")

----------------------------------------------------------------------------
\* Field names.

numeric_fields == <<"area", "bedrooms", "bathrooms", "stories", "parking">>

categorical_fields ==
    {"mainroad", "guestroom", "basement", "hotwaterheating",
     "airconditioning", "prefarea", "furnishingstatus"}

required_fields ==
    <<"area", "bedrooms", "bathrooms", "stories", "mainroad", "guestroom",
      "basement", "hotwaterheating", "airconditioning", "parking",
      "prefarea", "furnishingstatus">>

Range(seq) == {seq[i] : i \in DOMAIN seq}

----------------------------------------------------------------------------
\* The artifacts joblib.load can return.

\* feature_names.joblib: the training column order, or a reduced schema
\* with an engineered column no request carries.
FullNames == required_fields
ShortNames == <<"furnishingstatus", "area", "age", "mainroad">>
FeatureNameLists == {FullNames, ShortNames}

\* The model and the scaler are fitted to a fixed number of columns.
ArtifactWidths == {Len(FullNames), Len(ShortNames)}

\* encoders.joblib: per categorical column the LabelEncoder's sorted classes.
YesNo == <<"no", "yes">>
EncoderClasses ==
    [c \in categorical_fields |->
        IF c = "furnishingstatus"
        THEN <<"furnished", "semi-furnished", "unfurnished">>
        ELSE YesNo]

\* encoder.transform of a one-cell column: the class index, or ValueError
\* for a label not among the classes.
EncoderTransform(classes, v) ==
    IF v.t = "str" /\ \E i \in DOMAIN classes : classes[i] = v.s
    THEN Ok(Whole((CHOOSE i \in DOMAIN classes : classes[i] = v.s) - 1))
    ELSE Raise("ValueError")

\* scaler.transform of one row: the width must match the fit and every cell
\* must be a finite number; column i is centred on its fitted mean.
ScalerMean(i) == i * 10
ScalerTransform(width, row) ==
    IF Len(row) # width \/ \E i \in DOMAIN row : row[i].t # "num"
    THEN [ok |-> FALSE, exc |-> "ValueError", vec |-> <<>>]
    ELSE [ok |-> TRUE, exc |-> "",
          vec |-> [i \in DOMAIN row |-> row[i].n - ScalerMean(i)]]

\* model.predict of one row, in thousandths: a linear model; the width must
\* match the fit.
RECURSIVE Dot(_, _)
Dot(vec, i) == IF i = 0 THEN 0 ELSE Dot(vec, i - 1) + (i + 1) * vec[i]
ModelPredict(width, vec) ==
    IF Len(vec) # width
    THEN [ok |-> FALSE, exc |-> "ValueError", p |-> 0]
    ELSE [ok |-> TRUE, exc |-> "", p |-> 50004 + Dot(vec, Len(vec))]

----------------------------------------------------------------------------
\* prepare_features(input_data)

\* Mutant: an unknown label takes code 1 instead of 0.
EncodeColumnsDefaultOne(enc, input_data) ==
    [c \in DOMAIN input_data |->
        IF c \in DOMAIN enc
        THEN LET r == EncoderTransform(enc[c], input_data[c])
             IN  IF r.ok THEN r.val ELSE Whole(1)
        ELSE input_data[c]]

\* Lines 57-64: each encoder's column, when present, is replaced by its code;
\* a ValueError of the encoder is replaced by 0.
EncodeColumns(enc, input_data) ==
    [c \in DOMAIN input_data |->
        IF c \in DOMAIN enc
        THEN LET r == EncoderTransform(enc[c], input_data[c])
             IN  IF r.ok THEN r.val ELSE Whole(0)
        ELSE input_data[c]]

\* The columns that took the default code.
DefaultedColumns(enc, input_data) ==
    {c \in DOMAIN input_data \cap DOMAIN enc :
        ~EncoderTransform(enc[c], input_data[c]).ok}

\* Lines 67-69: every feature missing from the frame is added as 0.
FillMissing(names, df) ==
    [c \in DOMAIN df \cup Range(names) |->
        IF c \in DOMAIN df THEN df[c] ELSE Whole(0)]

\* Mutant: the columns are taken in another order than feature_names.
ReorderReversed(names, df) ==
    [i \in DOMAIN names |-> df[names[Len(names) + 1 - i]]]

\* Line 72: the columns of feature_names, in that order.
Reorder(names, df) == [i \in DOMAIN names |-> df[names[i]]]

\* Mutant: a missing feature_names falls back to the required fields.
prepare_featuresFallback(input_data) ==
    LET enc == Get(encoders)
        names == IF IsNone(feature_names) THEN required_fields
                 ELSE Get(feature_names)
        df3 == Reorder(names, FillMissing(names, EncodeColumns(enc, input_data)))
        sc == ScalerTransform(Get(scaler), df3)
    IN  [ok |-> sc.ok, exc |-> sc.exc, vec |-> sc.vec,
         defaulted |-> DefaultedColumns(enc, input_data)]

prepare_features(input_data) ==
    LET enc == Get(encoders)
        df1 == EncodeColumns(enc, input_data)
    IN  IF IsNone(feature_names)
        THEN [ok |-> FALSE, exc |-> "TypeError", vec |-> <<>>,
              defaulted |-> DefaultedColumns(enc, input_data)]
        ELSE LET names == Get(feature_names)
                 df2 == FillMissing(names, df1)
                 df3 == Reorder(names, df2)
                 sc == ScalerTransform(Get(scaler), df3)
             IN  [ok |-> sc.ok, exc |-> sc.exc, vec |-> sc.vec,
                  defaulted |-> DefaultedColumns(enc, input_data)]

----------------------------------------------------------------------------
\* Responses.

\* One shape for every response; a handler fills what it returns. stage is
\* the step of the handler that ended it ("ok" for a normal return), exc the
\* exception type raised there.
Blank(endpoint) ==
    [endpoint |-> endpoint, status |-> 200, success |-> None, error |-> "",
     stage |-> "ok", exc |-> "", data |-> None, record |-> None,
     features |-> None, defaulted |-> {}, prediction |-> None,
     predicted_price |-> None, price_per_sqft |-> None, area |-> None,
     body |-> None, request |-> None]

\* return jsonify({"success": False, "error": ...}), status
Failure(endpoint, status, error, stage, exc) ==
    [Blank(endpoint) EXCEPT !.status = status, !.success = Some(FALSE),
                            !.error = error, !.stage = stage, !.exc = exc]

\* Mutant: the except block returns its body without the status code.
CaughtNoStatus(r, stage, exc) ==
    [r EXCEPT !.success = Some(FALSE), !.error = exc, !.stage = stage,
              !.exc = exc, !.predicted_price = None]

\* Lines 174-179 and 235-240: except Exception as e: the body
\* {"success": False, "error": str(e)} with status 500. r is the handler's
\* progress when e was raised in step stage.
Caught(r, stage, exc) ==
    [r EXCEPT !.status = 500, !.success = Some(FALSE), !.error = exc,
              !.stage = stage, !.exc = exc, !.predicted_price = None]

\* all([...]): every listed global is truthy (a loaded artifact is a
\* non-empty object; None is falsy).
AllTruthy(objs) == \A i \in DOMAIN objs : ~IsNone(objs[i])

\* round(p / a, 0) for a > 0, as the set of nearest integers: a decimal tie
\* falls either way, as the binary value of the float decides it.
RoundSet(p, a) ==
    LET q == p \div a
        r == p - q * a
    IN  IF 2 * r < a THEN {q}
        ELSE IF 2 * r > a THEN {q + 1}
        ELSE {q, q + 1}

\* round(p / a, 0) for any a # 0.
RoundDiv(p, a) == IF a > 0 THEN RoundSet(p, a) ELSE RoundSet(0 - p, 0 - a)

----------------------------------------------------------------------------
\* POST /predict

\* Lines 148-156: float() of each numeric field present, in order; the first
\* failure ends the loop.
RECURSIVE ConvertNumeric(_, _)
ConvertNumeric(data, i) ==
    IF i > Len(numeric_fields) THEN [ok |-> TRUE, exc |-> "", field |-> "",
                                     data |-> data]
    ELSE LET field == numeric_fields[i]
         IN  IF field \notin DOMAIN data THEN ConvertNumeric(data, i + 1)
             ELSE LET r == FloatOf(data[field])
                  IN  IF r.ok
                      THEN ConvertNumeric([data EXCEPT ![field] = r.val], i + 1)
                      ELSE [ok |-> FALSE, exc |-> r.exc, field |-> field,
                            data |-> data]

\* Lines 152-156 and 174-179: the inner handler takes a ValueError only; any
\* other exception reaches the outer handler.
NumericError(endpoint, conv) ==
    IF conv.exc = "ValueError"
    THEN Failure(endpoint, 400, "Invalid numeric value", "convert", conv.exc)
    ELSE Caught(Blank(endpoint), "convert", conv.exc)

\* Lines 158-179: prepare, predict and answer; an exception of either step
\* is answered 500 with its message.
PredictTail(endpoint, data, record) ==
    LET prep == prepare_features(record)
        base == [Blank(endpoint) EXCEPT !.data = Some(data),
                                        !.record = Some(record),
                                        !.defaulted = prep.defaulted]
    IN  IF ~prep.ok
        THEN {Caught(base, "prepare", prep.exc)}
        ELSE LET inf == ModelPredict(Get(model), prep.vec)
                 got == [base EXCEPT !.features = Some(prep.vec)]
             IN  IF ~inf.ok
                 THEN {Caught(got, "inference", inf.exc)}
                 ELSE {[got EXCEPT !.success = Some(TRUE),
                                   !.prediction = Some(inf.p),
                                   !.predicted_price = Some(c)] :
                          c \in RoundSet(inf.p, 10)}

predict(data) ==
    IF ~AllTruthy(<<model, scaler, encoders>>)
    THEN {Failure("/predict", 500, "Model components not loaded", "guard", "")}
    ELSE LET conv == ConvertNumeric(data, 1)
         IN  IF ~conv.ok THEN {NumericError("/predict", conv)}
             ELSE PredictTail("/predict", conv.data, conv.data)

----------------------------------------------------------------------------
\* POST /predict/simple

\* Mutant: the bedrooms default is 2.
SimpleDefaultsTwoBedrooms ==
    [f \in Range(required_fields) |->
        CASE f = "area" -> Whole(1000)
          [] f \in {"bedrooms", "bathrooms"} -> Whole(2)
          [] f = "stories" -> Whole(1)
          [] f = "parking" -> Whole(1)
          [] f = "mainroad" -> Str("yes")
          [] f = "furnishingstatus" -> Str("unfurnished")
          [] OTHER -> Str("no")]

\* Lines 199-212: the value of each key the request lacks.
SimpleDefaults ==
    [f \in Range(required_fields) |->
        CASE f = "area" -> Whole(1000)
          [] f = "bedrooms" -> Whole(3)
          [] f = "bathrooms" -> Whole(2)
          [] f = "stories" -> Whole(1)
          [] f = "parking" -> Whole(1)
          [] f = "mainroad" -> Str("yes")
          [] f = "furnishingstatus" -> Str("unfurnished")
          [] OTHER -> Str("no")]

\* data.get(key, default)
DictGet(data, key, default) == IF key \in DOMAIN data THEN data[key] ELSE default

\* One entry of simple_data: float() for area, int() for the other numeric
\* fields, the value as it is for the rest.
SimpleEntry(data, f) ==
    LET v == DictGet(data, f, SimpleDefaults[f])
    IN  IF f = "area" THEN FloatOf(v)
        ELSE IF f \in Range(numeric_fields) THEN IntOf(v)
        ELSE Ok(v)

\* The dict literal is evaluated in order; the first conversion that raises
\* ends it.
BuildSimple(data) ==
    LET bad == {i \in DOMAIN required_fields :
                   ~SimpleEntry(data, required_fields[i]).ok}
    IN  IF bad = {}
        THEN [ok |-> TRUE, exc |-> "",
              record |-> [f \in Range(required_fields) |->
                             SimpleEntry(data, f).val]]
        ELSE LET first == CHOOSE i \in bad : \A j \in bad : i <= j
             IN  [ok |-> FALSE,
                  exc |-> SimpleEntry(data, required_fields[first]).exc,
                  record |-> SimpleDefaults]

\* Mutant: the price is divided by the bedrooms instead of the area.
PricePerBedroom(prediction, simple_data) ==
    RoundDiv(prediction, simple_data["bedrooms"].n)

\* Line 225: round(float(prediction) / simple_data['area'], 2), in
\* hundredths, for a prediction in thousandths and an area in tenths.
price_per_sqft(prediction, simple_data) ==
    RoundDiv(prediction, simple_data["area"].n)

\* Lines 222-233: the success body adds price_per_sqft; area 0.0 raises
\* ZeroDivisionError, which the handler answers 500.
SimpleBody(r) ==
    IF r.stage # "ok" THEN {r}
    ELSE LET a == Get(r.record)["area"].n
         IN  IF a = 0
             THEN {Caught(r, "respond", "ZeroDivisionError")}
             ELSE {[r EXCEPT !.area = Some(a), !.price_per_sqft = Some(q)] :
                      q \in price_per_sqft(Get(r.prediction), Get(r.record))}

predict_simple(data) ==
    IF ~AllTruthy(<<model, scaler, encoders>>)
    THEN {Failure("/predict/simple", 500, "Model components not loaded",
                  "guard", "")}
    ELSE LET built == BuildSimple(data)
         IN  IF ~built.ok
             THEN {Caught(Blank("/predict/simple"), "convert", built.exc)}
             ELSE UNION {SimpleBody(r) :
                     r \in PredictTail("/predict/simple", data, built.record)}

----------------------------------------------------------------------------
\* GET /, /health, /info

home == [Blank("/") EXCEPT !.body = Some([status |-> "active"])]

health_check ==
    [Blank("/health") EXCEPT !.body = Some([status |-> "healthy",
            model_loaded |-> ~IsNone(model),
            scaler_loaded |-> ~IsNone(scaler),
            encoders_loaded |-> ~IsNone(encoders)])]

model_info ==
    IF ~AllTruthy(<<model, scaler, encoders, feature_names>>)
    THEN [Blank("/info") EXCEPT !.status = 500,
                                !.error = "Model components not loaded",
                                !.stage = "guard"]
    ELSE [Blank("/info") EXCEPT !.body = Some([
            features |-> Get(feature_names),
            categorical_features |-> DOMAIN Get(encoders),
            num_features |-> Len(Get(feature_names))])]

----------------------------------------------------------------------------
\* The requests a client can send: a JSON object, or a form (every value a
\* string; no body is the empty form), built from a base record by setting
\* or dropping at most MaxOverrides keys.

Keys == Range(required_fields) \cup {"extra"}

\* The documented defaults, supplied explicitly as JSON values.
ExplicitDefaults ==
    [f \in Range(required_fields) |->
        CASE f = "area" -> Whole(1000)
          [] f = "bedrooms" -> Whole(3)
          [] f = "bathrooms" -> Whole(2)
          [] f = "stories" -> Whole(1)
          [] f = "parking" -> Whole(1)
          [] f \in {"guestroom", "basement", "hotwaterheating",
                    "airconditioning", "prefarea"} -> Str("no")
          [] f = "mainroad" -> Str("yes")
          [] OTHER -> Str("unfurnished")]

FormDefaults ==
    [f \in Range(required_fields) |->
        CASE f = "area" -> Str("1000")
          [] f = "bedrooms" -> Str("3")
          [] f = "bathrooms" -> Str("2")
          [] f = "stories" -> Str("1")
          [] f = "parking" -> Str("1")
          [] OTHER -> ExplicitDefaults[f]]

EmptyDict == [k \in {} |-> Null]

Bases(kind) ==
    IF kind = "json" THEN {EmptyDict, ExplicitDefaults}
    ELSE {EmptyDict, FormDefaults}

FieldValues(kind, k) ==
    {Absent} \cup
    IF kind = "json"
    THEN CASE k = "area" ->
                {Whole(0), Num(1), Num(5), Whole(1), Whole(2000), Whole(0 - 3),
                 Str("abc"),
                 Str("inf"), Null, List}
           [] k \in Range(numeric_fields) ->
                {Num(25), Whole(4), Str("abc"), Str("2.5"), Str("2"), Null}
           [] k = "furnishingstatus" ->
                {Str("furnished"), Str("semi-furnished"), Str("bogus"), Null}
           [] k = "extra" -> {Str("x"), Whole(7)}
           [] OTHER -> {Str("yes"), Str("no"), Str("maybe"), Null, Whole(1)}
    ELSE CASE k = "area" -> {Str("0.1"), Str("2.5"), Str("abc"), Str("inf")}
           [] k \in Range(numeric_fields) -> {Str("2.5"), Str("2"), Str("abc")}
           [] k = "furnishingstatus" -> {Str("furnished"), Str("bogus")}
           [] k = "extra" -> {Str("x")}
           [] OTHER -> {Str("yes"), Str("no"), Str("maybe")}

AllValues(kind) == UNION {FieldValues(kind, k) : k \in Keys}

Overrides(kind) ==
    UNION {{o \in [S -> AllValues(kind)] :
               \A k \in S : o[k] \in FieldValues(kind, k)} :
           S \in {T \in SUBSET Keys : Cardinality(T) <= MaxOverrides}}

Apply(base, o) ==
    [k \in {j \in DOMAIN base \cup DOMAIN o :
               j \notin DOMAIN o \/ o[j] # Absent} |->
        IF k \in DOMAIN o THEN o[k] ELSE base[k]]

Requests ==
    UNION {{Apply(b, o) : b \in Bases(kind), o \in Overrides(kind)} :
           kind \in {"json", "form"}}

----------------------------------------------------------------------------
\* The client (src/interface.py). What the service answers is open here: a
\* call ends in a response (a status, a body that is JSON or not, empty or
\* not) or in a requests.exceptions.RequestException.

HttpResponse(status, text, json) ==
    [error |-> FALSE, status |-> status, text |-> text, json |-> json]
ConnectionError == [error |-> TRUE, status |-> 0, text |-> FALSE, json |-> FALSE]

\* text: the body is not empty; json: response.json() parses it.
HttpOutcomes ==
    {ConnectionError} \cup
    {HttpResponse(st, tx, js) :
        st \in {200, 400, 404, 500}, tx \in BOOLEAN, js \in BOOLEAN}

\* response.json() of a body that is not JSON raises JSONDecodeError, which is
\* a RequestException (taken by the except clause) or not (it leaves the
\* function), as the installed requests has it.
BadJson == {"caught", "raised"}

\* Mutant: any response of the service counts as online.
check_api_statusAnyResponse(resp) ==
    IF resp.error THEN {[online |-> FALSE, raised |-> FALSE]}
    ELSE IF resp.json THEN {[online |-> TRUE, raised |-> FALSE]}
    ELSE {[online |-> FALSE, raised |-> b = "raised"] : b \in BadJson}

\* Lines 59-68: (True, json) for status 200, (False, None) otherwise.
check_api_status(resp) ==
    IF resp.error THEN {[online |-> FALSE, raised |-> FALSE]}
    ELSE IF resp.status # 200 THEN {[online |-> FALSE, raised |-> FALSE]}
    ELSE IF resp.json THEN {[online |-> TRUE, raised |-> FALSE]}
    ELSE {[online |-> FALSE, raised |-> b = "raised"] : b \in BadJson}

\* Lines 81-99: (True, json) for status 200; (False, json) or
\* (False, {"error": "HTTP <status>"}) otherwise; (False, {"error":
\* "Connection error: ..."}) for a RequestException.
make_prediction(resp) ==
    IF resp.error
    THEN {[success |-> FALSE, result |-> "connection_error", raised |-> FALSE]}
    ELSE IF resp.status # 200 /\ ~resp.text
    THEN {[success |-> FALSE, result |-> "http_status", raised |-> FALSE]}
    ELSE IF resp.json
    THEN {[success |-> resp.status = 200, result |-> "json", raised |-> FALSE]}
    ELSE {[success |-> FALSE, result |-> "connection_error",
           raised |-> b = "raised"] : b \in BadJson}

\* Lines 178-233: the sidebar's widgets.
Areas == {500, 2000, 20000}
Bedrooms == {1, 3, 10}
Furnishings == {"unfurnished", "semi-furnished", "furnished"}

\* Lines 241-254: property_data.
property_data(area, bedrooms, furnishingstatus) ==
    [area |-> area, bedrooms |-> bedrooms, bathrooms |-> 2, stories |-> 1,
     mainroad |-> "yes", guestroom |-> "no", basement |-> "no",
     hotwaterheating |-> "no", airconditioning |-> "no", parking |-> 1,
     prefarea |-> "no", furnishingstatus |-> furnishingstatus]

\* The state of one run of main: at is the position in main; health and
\* post are the outcomes of this run's GET /health and prediction POST;
\* posted is the body of the POST this run sent.
ClientIdle ==
    [at |-> "start", health |-> None, api_online |-> None, posted |-> None,
     post |-> None, success |-> None, result |-> None]

ClientServerIdle ==
    UNCHANGED <<entry, pc, server, model, scaler, encoders, feature_names,
                last>>

\* Streamlit runs the script again, from the top.
NextRun ==
    /\ client.at \in {"done", "stopped", "raised"}
    /\ client' = ClientIdle
    /\ ClientServerIdle

\* Lines 154-170: check_api_status(); offline ends the run with st.stop().
MainCheck ==
    /\ client.at = "start"
    /\ \E resp \in HttpOutcomes : \E r \in check_api_status(resp) :
          client' = [client EXCEPT
                        !.health = Some(resp),
                        !.api_online = IF r.raised THEN None ELSE Some(r.online),
                        !.at = IF r.raised THEN "raised"
                               ELSE IF r.online THEN "sidebar" ELSE "stopped"]
    /\ ClientServerIdle

\* Lines 172-257: the widgets are read; with the button pressed
\* make_prediction(property_data, "simple") posts to /predict/simple.
MainPredict ==
    /\ client.at = "sidebar"
    /\ \E a \in Areas, b \in Bedrooms, f \in Furnishings,
          resp \in HttpOutcomes :
          \E r \in make_prediction(resp) :
             client' = [client EXCEPT
                           !.posted = Some(property_data(a, b, f)),
                           !.post = Some(resp),
                           !.success = IF r.raised THEN None
                                       ELSE Some(r.success),
                           !.result = IF r.raised THEN None
                                      ELSE Some(r.result),
                           !.at = IF r.raised THEN "raised" ELSE "info"]
    /\ ClientServerIdle

\* Line 239: the button was not pressed, nothing is posted.
MainNoPredict ==
    /\ client.at = "sidebar"
    /\ client' = [client EXCEPT !.at = "info"]
    /\ ClientServerIdle

\* Lines 312-323: the info panel (GET /info when api_online) and the end of
\* the run.
MainInfo ==
    /\ client.at = "info"
    /\ client' = [client EXCEPT !.at = "done"]
    /\ ClientServerIdle

ClientInit ==
    /\ entry = "script"
    /\ pc = "model"
    /\ server = "down"
    /\ model = None
    /\ scaler = None
    /\ encoders = None
    /\ feature_names = None
    /\ last = None
    /\ client = ClientIdle

ClientNext ==
    \/ MainCheck
    \/ MainPredict
    \/ MainNoPredict
    \/ MainInfo
    \/ NextRun

ClientSpec == ClientInit /\ [][ClientNext]_vars

----------------------------------------------------------------------------
\* Start-up. The module runs as a script (__name__ == '__main__': load, then
\* app.run or exit) or is imported by a host that serves app and may call
\* load_model_components itself.

Init ==
    /\ entry \in {"script", "imported"}
    /\ pc = IF entry = "script" THEN "model" ELSE "not_loaded"
    /\ server = "down"
    /\ model = None
    /\ scaler = None
    /\ encoders = None
    /\ feature_names = None
    /\ last = None
    /\ client = ClientIdle

\* An importing host calls load_model_components().
HostLoad ==
    /\ entry = "imported" /\ pc = "not_loaded" /\ last = None
    /\ pc' = "model"
    /\ UNCHANGED <<client, entry, server, model, scaler, encoders, feature_names, last>>

\* Lines 29, 33, 37, 41: each joblib.load returns the object or raises; a
\* raise ends the function with False, the earlier globals staying set.
LoadModel ==
    /\ pc = "model"
    /\ \/ \E w \in ArtifactWidths : model' = Some(w) /\ pc' = "scaler"
       \/ model' = model /\ pc' = "failed"
    /\ UNCHANGED <<client, entry, server, scaler, encoders, feature_names, last>>

LoadScaler ==
    /\ pc = "scaler"
    /\ \/ \E w \in ArtifactWidths : scaler' = Some(w) /\ pc' = "encoders"
       \/ scaler' = scaler /\ pc' = "failed"
    /\ UNCHANGED <<client, entry, server, model, encoders, feature_names, last>>

LoadEncoders ==
    /\ pc = "encoders"
    /\ \/ encoders' = Some(EncoderClasses) /\ pc' = "feature_names"
       \/ encoders' = encoders /\ pc' = "failed"
    /\ UNCHANGED <<client, entry, server, model, scaler, feature_names, last>>

LoadFeatureNames ==
    /\ pc = "feature_names"
    /\ \/ \E names \in FeatureNameLists :
             feature_names' = Some(names) /\ pc' = "ok"
       \/ feature_names' = feature_names /\ pc' = "failed"
    /\ UNCHANGED <<client, entry, server, model, scaler, encoders, last>>

\* Mutant: the result of load_model_components() is ignored.
AppRunAnyway ==
    /\ entry = "script" /\ server = "down" /\ pc \in {"ok", "failed"}
    /\ server' = "serving"
    /\ UNCHANGED <<client, entry, pc, model, scaler, encoders, feature_names, last>>

\* Lines 256-268: app.run only when load_model_components() returned True.
AppRun ==
    /\ entry = "script" /\ server = "down" /\ pc = "ok"
    /\ server' = "serving"
    /\ UNCHANGED <<client, entry, pc, model, scaler, encoders, feature_names, last>>

\* Lines 269-275: otherwise the script prints the required files and ends.
MainExit ==
    /\ entry = "script" /\ server = "down" /\ pc = "failed"
    /\ server' = "exited"
    /\ UNCHANGED <<client, entry, pc, model, scaler, encoders, feature_names, last>>

----------------------------------------------------------------------------
\* Requests. A handler runs when the script's server is up, or, in an
\* importing host, whenever load_model_components is not running.

Accepting ==
    /\ last = None
    /\ \/ entry = "script" /\ server = "serving"
       \/ entry = "imported" /\ pc \in {"not_loaded", "ok", "failed"}

Artifacts == <<model, scaler, encoders, feature_names>>

Home ==
    /\ Accepting
    /\ last' = Some(home)
    /\ UNCHANGED <<client, entry, pc, server, model, scaler, encoders, feature_names>>

Health ==
    /\ Accepting
    /\ last' = Some(health_check)
    /\ UNCHANGED <<client, entry, pc, server, model, scaler, encoders, feature_names>>

Info ==
    /\ Accepting
    /\ last' = Some(model_info)
    /\ UNCHANGED <<client, entry, pc, server, model, scaler, encoders, feature_names>>

\* Mutant: the default of an unknown category is written into the encoders.
PredictClobbers ==
    /\ Accepting
    /\ \E data \in Requests : \E r \in predict(data) :
          /\ last' = Some([r EXCEPT !.request = Some(data)])
          /\ encoders' = IF r.defaulted = {} THEN encoders
                         ELSE Some([c \in DOMAIN Get(encoders) |->
                                     IF c \in r.defaulted THEN <<>>
                                     ELSE Get(encoders)[c]])
    /\ UNCHANGED <<client, entry, pc, server, model, scaler, feature_names>>

Predict ==
    /\ Accepting
    /\ \E data \in Requests : \E r \in predict(data) :
          last' = Some([r EXCEPT !.request = Some(data)])
    /\ UNCHANGED <<client, entry, pc, server, model, scaler, encoders, feature_names>>

PredictSimple ==
    /\ Accepting
    /\ \E data \in Requests : \E r \in predict_simple(data) :
          last' = Some([r EXCEPT !.request = Some(data)])
    /\ UNCHANGED <<client, entry, pc, server, model, scaler, encoders, feature_names>>

\* The response is sent and the request is over.
SendResponse ==
    /\ last # None
    /\ last' = None
    /\ UNCHANGED <<client, entry, pc, server, model, scaler, encoders, feature_names>>

Next ==
    \/ HostLoad
    \/ LoadModel
    \/ LoadScaler
    \/ LoadEncoders
    \/ LoadFeatureNames
    \/ AppRun
    \/ MainExit
    \/ Home
    \/ Health
    \/ Info
    \/ Predict
    \/ PredictSimple
    \/ SendResponse

Spec == Init /\ [][Next]_vars

----------------------------------------------------------------------------
\* Properties.

Answered == last # None
Resp == Get(last)
IsPrediction == Answered /\ Resp.endpoint \in {"/predict", "/predict/simple"}
Succeeded == IsPrediction /\ Resp.status = 200 /\ Resp.success = Some(TRUE)

\* The response comes from the server the script started.
ByScriptServer == Answered /\ entry = "script" /\ server = "serving"

\* The handler of the response's endpoint, applied to another request.
Rerun(endpoint, data) ==
    IF endpoint = "/predict" THEN predict(data) ELSE predict_simple(data)

\* Cell of feature f that a record stands for: 0 for a missing key, the
\* class index (0 for an unknown label) for an encoded column, the number
\* itself otherwise.
CellOf(record, f) ==
    IF f \notin DOMAIN record THEN 0
    ELSE IF f \in categorical_fields
         THEN LET classes == EncoderClasses[f]
                  hit == {i \in DOMAIN classes : record[f] = Str(classes[i])}
              IN  IF hit = {} THEN 0 ELSE ((CHOOSE i \in hit : TRUE) - 1) * 10
         ELSE record[f].n

\* C1: whenever prepare_features returns, the vector has len(feature_names)
\* entries and entry i is the encoded, scaled value of feature_names[i],
\* whatever keys the record holds.
C1_VectorFollowsFeatureNames ==
    (IsPrediction /\ Resp.features # None) =>
        LET vec == Get(Resp.features)
            names == Get(feature_names)
            record == Get(Resp.record)
        IN  /\ Len(vec) = Len(names)
            /\ \A i \in 1..Len(names) :
                  vec[i] = CellOf(record, names[i]) - ScalerMean(i)

\* A vector was returned for a record with an unknown key and without some
\* of the features.
C1_Witness ==
    /\ IsPrediction /\ Resp.features # None
    /\ "extra" \in DOMAIN Get(Resp.record)
    /\ \E i \in DOMAIN Get(feature_names) :
          Get(feature_names)[i] \notin DOMAIN Get(Resp.record)
    /\ \E i \in DOMAIN Get(feature_names) :
          Get(feature_names)[i] \in DOMAIN Get(Resp.record)

\* The categorical columns of a request whose label the encoder lacks.
Unrecognised(data) ==
    {c \in DOMAIN data \cap categorical_fields :
        \A i \in DOMAIN EncoderClasses[c] :
            data[c] # Str(EncoderClasses[c][i])}

NotANumber(data) ==
    {f \in DOMAIN data \cap Range(numeric_fields) : ~FloatOf(data[f]).ok}

\* C3: the started server's POST /predict answers 400 with success=false,
\* before feature preparation, every request that has a numeric field whose
\* value is not a number.
C3_NonNumericRejected400 ==
    (/\ ByScriptServer /\ Resp.endpoint = "/predict"
     /\ Resp.stage # "guard"
     /\ NotANumber(Get(Resp.request)) # {}) =>
        /\ Resp.status = 400
        /\ Resp.success = Some(FALSE)
        /\ Resp.record = None

\* C4 for POST /predict/simple: a numeric field whose value cannot be
\* converted is answered with a 4xx status.
C4_SimpleMalformedNumericIsClientError ==
    (/\ ByScriptServer /\ Resp.endpoint = "/predict/simple"
     /\ Resp.stage = "convert") =>
        (Resp.status >= 400 /\ Resp.status < 500)

----------------------------------------------------------------------------
\* C5

\* The number a request value stands for, in tenths.
NumberOf(v) == FloatOf(v).val.n

\* C5 as stated: no body is answered as the explicit defaults are, every
\* absent field takes its default and every present field keeps its value.
C5_DefaultsAndPresentKept ==
    (ByScriptServer /\ Succeeded /\ Resp.endpoint = "/predict/simple") =>
        LET data == Get(Resp.request)
            record == Get(Resp.record)
        IN  \A f \in Range(required_fields) :
               IF f \notin DOMAIN data THEN record[f] = ExplicitDefaults[f]
               ELSE IF f \in Range(numeric_fields)
                    THEN record[f].n = NumberOf(data[f])
                    ELSE record[f] = data[f]

\* C5 amended: no body is answered as the explicit defaults are; every
\* absent field takes its default; a present area is kept as a float; a
\* present bedrooms, bathrooms, stories or parking is kept as int() of it,
\* which drops the fraction of a number; the other fields are kept.
C5_DefaultsAndPresentConverted ==
    (Answered /\ Resp.endpoint = "/predict/simple") =>
        LET data == Get(Resp.request)
        IN  /\ data = EmptyDict =>
                  \E r0 \in predict_simple(ExplicitDefaults) :
                     [r0 EXCEPT !.request = Resp.request,
                                !.data = Resp.data] = Resp
            /\ Succeeded =>
                  \A f \in Range(required_fields) :
                     LET got == Get(Resp.record)[f]
                     IN  IF f \notin DOMAIN data THEN got = ExplicitDefaults[f]
                         ELSE IF f = "area" THEN got.n = NumberOf(data[f])
                         ELSE IF f \in Range(numeric_fields)
                              THEN got.n = Trunc(NumberOf(data[f]))
                              ELSE got = data[f]

\* A request without a body was answered with a prediction.
C5_Witness ==
    /\ Succeeded /\ Resp.endpoint = "/predict/simple"
    /\ Get(Resp.request) = EmptyDict

----------------------------------------------------------------------------
\* C6, C7, C8

AllLoaded == AllTruthy(Artifacts)

\* C6: the script's server runs only after load_model_components loaded all
\* four artifacts; after a failed load it is never started, and every
\* request it serves finds the four artifacts.
C6_ServesOnlyWhenLoaded ==
    /\ server = "serving" => (pc = "ok" /\ AllLoaded)
    /\ pc = "failed" => server # "serving"
    /\ (entry = "script" /\ Answered) => AllLoaded

\* The script's server answered a prediction.
C6_Witness == entry = "script" /\ server = "serving" /\ Succeeded

\* C7: /health reports each flag as the artifact is loaded, and after a
\* failed load it does not report a healthy service with every flag set.
C7_HealthTruthful ==
    (Answered /\ Resp.endpoint = "/health") =>
        LET body == Get(Resp.body)
        IN  /\ body.model_loaded = ~IsNone(model)
            /\ body.scaler_loaded = ~IsNone(scaler)
            /\ body.encoders_loaded = ~IsNone(encoders)
            /\ pc = "failed" =>
                  ~(/\ body.status = "healthy"
                    /\ body.model_loaded
                    /\ body.scaler_loaded
                    /\ body.encoders_loaded)

\* C8: once loading has finished, and in every step of a request handler,
\* the four artifacts stay as they are.
C8_ArtifactsReadOnly ==
    [][(pc \in {"ok", "failed"} \/ last' # last) => Artifacts' = Artifacts]_vars

\* After a completed load a prediction request failed in preparation.
C8_Witness ==
    /\ pc = "ok" /\ IsPrediction
    /\ Resp.stage = "prepare"
    /\ Resp.defaulted # {}

----------------------------------------------------------------------------
\* C9, C10

\* C9: an exception raised in feature preparation or in inference is answered
\* 500 with success=false and the exception's message, and no success
\* response.
C9_ExceptionsAnswered500 ==
    (IsPrediction /\ Resp.stage \in {"prepare", "inference"}) =>
        /\ Resp.status = 500
        /\ Resp.success = Some(FALSE)
        /\ Resp.error = Resp.exc /\ Resp.error # ""
        /\ Resp.predicted_price = None
        /\ Resp.price_per_sqft = None

\* model.predict raised in POST /predict/simple.
C9_Witness ==
    /\ IsPrediction /\ Resp.endpoint = "/predict/simple"
    /\ Resp.stage = "inference"

Abs(x) == IF x < 0 THEN 0 - x ELSE x

\* |price_per_sqft - predicted_price / area| <= 0.01, with price_per_sqft
\* and predicted_price in hundredths and the area in tenths.
WithinOneCent ==
    LET a == Get(Resp.area)
    IN  Abs(Get(Resp.price_per_sqft) * a - 10 * Get(Resp.predicted_price))
            <= Abs(a)

\* C10 as stated: in every success response of POST /predict/simple,
\* price_per_sqft is within 0.01 of predicted_price / area.
C10_PricePerSqftAnyArea ==
    (ByScriptServer /\ Succeeded /\ Resp.endpoint = "/predict/simple") =>
        WithinOneCent

\* C10 amended: the same for every area of absolute value at least 1.
C10_PricePerSqftAreaAtLeastOne ==
    (Succeeded /\ Resp.endpoint = "/predict/simple"
        /\ Abs(Get(Resp.area)) >= 10) => WithinOneCent

\* A success response whose quotient had to be rounded, for an area >= 1.
C10_Witness ==
    /\ Succeeded /\ Resp.endpoint = "/predict/simple"
    /\ Get(Resp.area) >= 10
    /\ Get(Resp.prediction) % Get(Resp.area) # 0
    /\ Get(Resp.prediction) % 10 # 0

----------------------------------------------------------------------------
\* C11

\* C11 as stated: a prediction endpoint answers success=true only with all
\* four artifacts loaded; with any of them missing, feature_names included,
\* it answers 500 with success=false.
C11_MissingArtifactAnswered500 ==
    IsPrediction =>
        /\ Resp.success = Some(TRUE) => AllLoaded
        /\ ~AllLoaded => (Resp.status = 500 /\ Resp.success = Some(FALSE))

\* C11 amended: success=true only with all four loaded; with any of them
\* missing the answer has success=false and status 500, except that POST
\* /predict, when only feature_names is missing, still answers 400 to a
\* numeric field holding a non-numeric string.
C11_MissingArtifactNeverSucceeds ==
    IsPrediction =>
        /\ Resp.success = Some(TRUE) => AllLoaded
        /\ ~AllLoaded =>
              /\ Resp.success = Some(FALSE)
              /\ \/ Resp.status = 500
                 \/ /\ Resp.status = 400
                    /\ Resp.endpoint = "/predict"
                    /\ AllTruthy(<<model, scaler, encoders>>)
                    /\ IsNone(feature_names)
                    /\ \E f \in NotANumber(Get(Resp.request)) :
                          Get(Resp.request)[f].t = "str"

\* With only feature_names missing, a well-formed prediction request passed
\* the guard and was answered 500.
C11_Witness ==
    /\ IsPrediction
    /\ AllTruthy(<<model, scaler, encoders>>) /\ IsNone(feature_names)
    /\ Resp.stage = "prepare" /\ Resp.status = 500
    /\ Resp.success = Some(FALSE)

----------------------------------------------------------------------------
\* C12

\* This run's GET /health returned HTTP 200.
HealthReturned200 ==
    /\ client.health # None
    /\ ~Get(client.health).error
    /\ Get(client.health).status = 200

\* C12: within one run of the client's main a prediction is posted only
\* after this run's health check returned HTTP 200; a failed health check (a
\* non-200 status or a connection error) stops the run with nothing posted;
\* make_prediction reports success only for a response of status 200.
C12_PostOnlyAfterHealthy ==
    /\ client.posted # None => HealthReturned200
    /\ (client.health # None /\ ~HealthReturned200) =>
          (client.at = "stopped" /\ client.posted = None)
    /\ client.success = Some(TRUE) =>
          (~Get(client.post).error /\ Get(client.post).status = 200)

\* A run posted a prediction after a healthy check and it succeeded; the
\* same model also reaches a run stopped by a failed check.
C12_Witness ==
    /\ client.at = "done"
    /\ HealthReturned200
    /\ client.posted # None
    /\ client.success = Some(TRUE)

====
